---- MODULE Spec2Model ----
(***************************************************************************)
(* Model of the PreferentialAttachment scripts:                            *)
(*   - the brace-scanning countFunctionLines of simple_cpp_counter.js,     *)
(*   - samplePreferentialAttachment and calculateGini,                     *)
(*   - the threshold-crossing loops generateIterations and iterations,     *)
(*   - analyzeRepo and the main section of the four counter scripts.       *)
(* Each script is an independent program; each has its own specification   *)
(* over the module's variables, the other scripts' variables staying idle. *)
(***************************************************************************)
EXTENDS Integers, Sequences, FiniteSets, TLC

VARIABLES
  pc,                \* position of the running script
  \* ---- countFunctionLines (src/unnamed/part_001:95-153)
  lines,             \* the file, one record per source line
  i,                 \* loop index (0-based, as in the code)
  inFunction,
  functionStartLine,
  braceCount,
  parenCount,
  lineCounts,
  detected,          \* history: the functions declared found, <<start, end, lineCount>>
  \* ---- preferentialAttachment / samplePreferentialAttachment (src/unnamed/part_002:24-90)
  counts,            \* the counts array
  sampleI,           \* loop index i of preferentialAttachment
  random,            \* the last value of Math.random(), as a numerator over RandDen
  selectedIndex,     \* the index returned by the sampler (0-based, -1 before any)
  \* ---- calculateGini (src/unnamed/part_002:238-251)
  values,            \* the argument
  giniNum,           \* the returned quotient's numerator ...
  giniDen,           \* ... and denominator (0 / 1 for the early return 0)
  \* ---- generateIterations (src/power_law_generator.js:7-17) and
  \*      iterations (src/iteration_generator.js:7-17)
  growthRate,        \* argument, a fraction <<numerator, denominator>>
  initialSample,     \* argument, a fraction <<numerator, denominator>>
  sample,            \* local, a fraction of two naturals held as digit sequences
  iterations,        \* local
  threshold,         \* the last value of Math.random(), a numerator over ThresholdDen
  \* ---- the counter scripts: main section and analyzeRepo
  variant,           \* which of the four counter scripts runs
  repoUrl,           \* process.argv[2], "" when the argument is missing
  tempDir,           \* "none", "exists" or "removed"
  cloneRun,          \* git clone has been run
  usagePrinted,      \* the usage message has been printed
  installHintPrinted,\* the tree-sitter install instructions have been printed
  exitCode,          \* the argument of process.exit, -1 while none was called
  work,              \* files, batches or messages still to be processed
  allLineCounts,
  histogram,         \* the histogram object: property name |-> count
  printedRows,       \* the rows printed, <<property name, count>>
  printedTotal,      \* the number printed as total, -1 when none was
  \* ---- generatePowerLawPreferential (src/power_law_generator.js:26-79)
  exponent,          \* 1 / (alpha - 1), the power the weights raise a value to
  xMin,              \* argument
  steps,             \* argument
  newElementProbability, \* argument, a numerator over RandDen
  population,        \* the local array named values
  step               \* loop index

scanVars == <<lines, i, inFunction, functionStartLine, braceCount, parenCount,
              lineCounts, detected>>

sampleVars == <<counts, sampleI, random, selectedIndex>>

giniVars == <<values, giniNum, giniDen>>

iterVars == <<growthRate, initialSample, sample, iterations, threshold>>

repoVars == <<variant, repoUrl, tempDir, cloneRun, usagePrinted,
              installHintPrinted, exitCode, work, allLineCounts, histogram,
              printedRows, printedTotal>>

powerVars == <<exponent, xMin, steps, newElementProbability, population, step>>

vars == <<pc, scanVars, sampleVars, giniVars, iterVars, repoVars, powerVars>>

(* What each script leaves alone: the other scripts' variables. *)
notScan == <<sampleVars, giniVars, iterVars, repoVars, powerVars>>
notSample == <<scanVars, giniVars, iterVars, repoVars, powerVars>>
notGini == <<scanVars, sampleVars, iterVars, repoVars, powerVars>>
notIter == <<scanVars, sampleVars, giniVars, repoVars, powerVars>>
notRepo == <<scanVars, sampleVars, giniVars, iterVars, powerVars>>
notPower == <<scanVars, sampleVars, giniVars, iterVars, repoVars>>

----------------------------------------------------------------------------
(* Bounds of the model *)

MaxLines == 4
MaxArraySize == 3      \* arraySize of preferentialAttachment
MaxSamples == 4        \* iterations of preferentialAttachment
RandDen == 4           \* Math.random() ranges over 0/RandDen .. (RandDen-1)/RandDen
MaxValues == 4         \* length of the array given to calculateGini
MaxValue == 3          \* largest entry of that array
ThresholdDen == 50     \* Math.random() in the growth loops: 0/ThresholdDen .. (ThresholdDen-1)/ThresholdDen
MaxIter == 52          \* cap on the growth loops' iteration counter
MaxWork == 3           \* files, batches or messages analyzeRepo goes through
MaxLineCount == 11     \* largest function line count collected
MaxXMin == 3           \* largest xMin given to generatePowerLawPreferential
MaxSteps == 3          \* largest steps given to generatePowerLawPreferential

----------------------------------------------------------------------------
(* Generic helpers *)

RECURSIVE SumSeq(_)
SumSeq(s) == IF s = <<>> THEN 0 ELSE s[1] + SumSeq(Tail(s))

SeqsUpTo(S, n) == UNION {[1..k -> S] : k \in 0..n}

----------------------------------------------------------------------------
(* countFunctionLines: the brace scanner                                   *)

(* A source line, reduced to what the scanner reads off it: whether the    *)
(* trimmed line is skipped (empty or a comment), the number of matches of  *)
(* each of the four regular expressions, whether it includes ';', and      *)
(* whether it starts with '{'.                                             *)
Line(skip, op, cp, ob, cb, semi, sb) ==
  [skip |-> skip, openParens |-> op, closeParens |-> cp, openBraces |-> ob,
   closeBraces |-> cb, semi |-> semi, startsBrace |-> sb]

LineKinds ==
  { Line(TRUE,  0, 0, 0, 0, FALSE, FALSE),   \* ""  or  "// { comment"
    Line(FALSE, 1, 1, 1, 0, FALSE, FALSE),   \* "void f() {"   "if (x) {"
    Line(FALSE, 1, 1, 0, 0, FALSE, FALSE),   \* "void f()"
    Line(FALSE, 0, 0, 1, 0, FALSE, TRUE),    \* "{"
    Line(FALSE, 0, 0, 0, 1, FALSE, FALSE),   \* "}"
    Line(FALSE, 1, 1, 0, 0, TRUE,  FALSE),   \* "g(x);"
    Line(FALSE, 1, 1, 1, 1, TRUE,  FALSE),   \* "int f() { return 1; }"
    Line(FALSE, 0, 0, 1, 1, FALSE, FALSE) }  \* "} else {"

Files == SeqsUpTo(LineKinds, MaxLines)

(* One pass of the for loop body over line i, as a record of the new      *)
(* values of the scanner's locals.                                         *)
ScanStep(ls, idx, inF, startLine, bc, pcnt) ==
  LET line == ls[idx + 1]
      openParens == line.openParens
      closeParens == line.closeParens
      openBraces == line.openBraces
      closeBraces == line.closeBraces
      parens == pcnt + openParens - closeParens
      sameLine == ~inF /\ openParens > 0 /\ parens = 0 /\ openBraces > 0
      nextLine == /\ ~sameLine
                  /\ ~inF /\ openParens > 0 /\ parens = 0
                  /\ closeParens > 0 /\ ~line.semi
                  /\ idx + 1 < Len(ls) /\ ls[idx + 2].startsBrace
      inF1 == inF \/ sameLine \/ nextLine
      start1 == IF sameLine \/ nextLine THEN idx ELSE startLine
      bc1 == IF sameLine THEN openBraces - closeBraces
             ELSE IF nextLine THEN 0 ELSE bc
      bc2 == IF inF1 THEN bc1 + openBraces - closeBraces ELSE bc1
      ends == inF1 /\ bc2 = 0 /\ (openBraces > 0 \/ closeBraces > 0)
  IN  [inFunction |-> inF1 /\ ~ends,
       functionStartLine |-> start1,
       braceCount |-> bc2,
       parenCount |-> IF ends THEN 0 ELSE parens,
       ends |-> ends,
       lineCount |-> idx - start1 + 1]

IdleScan ==
  /\ lines = <<>> /\ i = 0 /\ inFunction = FALSE /\ functionStartLine = 0
  /\ braceCount = 0 /\ parenCount = 0 /\ lineCounts = <<>> /\ detected = <<>>

IdleSample ==
  counts = <<>> /\ sampleI = 0 /\ random = 0 /\ selectedIndex = -1

IdleGini ==
  values = <<>> /\ giniNum = 0 /\ giniDen = 1

IdleIter ==
  /\ growthRate = <<0, 1>> /\ initialSample = <<0, 1>> /\ sample = <<>>
  /\ iterations = 0 /\ threshold = -1

EmptyObject == [k \in {} |-> 0]

IdleRepo ==
  /\ variant = "none" /\ repoUrl = "" /\ tempDir = "none" /\ cloneRun = FALSE
  /\ usagePrinted = FALSE /\ installHintPrinted = FALSE /\ exitCode = -1
  /\ work = 0 /\ allLineCounts = <<>> /\ histogram = EmptyObject
  /\ printedRows = <<>> /\ printedTotal = -1

IdlePower ==
  /\ exponent = 1 /\ xMin = 1 /\ steps = 0 /\ newElementProbability = 0
  /\ population = <<>> /\ step = 0

InitScan ==
  /\ pc = "scan"
  /\ IdleSample /\ IdleGini /\ IdleIter /\ IdleRepo /\ IdlePower
  /\ lines \in Files
  /\ i = 0
  /\ inFunction = FALSE
  /\ functionStartLine = 0
  /\ braceCount = 0
  /\ parenCount = 0
  /\ lineCounts = <<>>
  /\ detected = <<>>

ScanLine ==
  /\ pc = "scan"
  /\ i < Len(lines)
  /\ i' = i + 1
  /\ IF lines[i + 1].skip
     THEN UNCHANGED <<inFunction, functionStartLine, braceCount, parenCount,
                      lineCounts, detected>>
     ELSE LET r == ScanStep(lines, i, inFunction, functionStartLine,
                            braceCount, parenCount)
          IN  /\ inFunction' = r.inFunction
              /\ functionStartLine' = r.functionStartLine
              /\ braceCount' = r.braceCount
              /\ parenCount' = r.parenCount
              /\ lineCounts' = IF r.ends /\ r.lineCount > 1
                               THEN Append(lineCounts, r.lineCount)
                               ELSE lineCounts
              /\ detected' = IF r.ends
                             THEN Append(detected,
                                    [start |-> r.functionStartLine, end |-> i,
                                     lineCount |-> r.lineCount])
                             ELSE detected
  /\ UNCHANGED <<pc, lines, notScan>>

ScanReturn ==
  /\ pc = "scan"
  /\ i = Len(lines)
  /\ pc' = "scanned"
  /\ UNCHANGED <<scanVars, notScan>>

NextScan == ScanLine \/ ScanReturn

SpecScan == InitScan /\ [][NextScan]_vars

(* Net '{' minus '}' over the non-skipped lines s..e (0-based, inclusive) *)
RECURSIVE NetBraces(_, _)
NetBraces(s, e) ==
  IF e < s THEN 0
  ELSE NetBraces(s, e - 1)
       + (IF lines[e + 1].skip THEN 0
          ELSE lines[e + 1].openBraces - lines[e + 1].closeBraces)

(* Line e closes the function started at s: it is a non-skipped line       *)
(* holding a brace at which the net count over s..e is back to zero.      *)
ClosesAt(s, e) ==
  /\ ~lines[e + 1].skip
  /\ lines[e + 1].openBraces > 0 \/ lines[e + 1].closeBraces > 0
  /\ NetBraces(s, e) = 0

InSeq(x, s) == \E k \in 1..Len(s) : s[k] = x

(* C1: a function whose start is detected at line s is declared found at  *)
(* the first line e >= s at which the net number of '{' minus '}' over    *)
(* the non-skipped lines s..e is back to zero, and e - s + 1 is the value *)
(* computed for it (and recorded, when it spans more than one line).      *)
C1_FoundWhenDepthReturnsToZero ==
  /\ \A d \in 1..Len(detected) :
        LET f == detected[d] IN
          /\ ClosesAt(f.start, f.end)
          /\ \A e \in f.start..(f.end - 1) : ~ClosesAt(f.start, e)
          /\ f.lineCount = f.end - f.start + 1
          /\ f.lineCount > 1 => InSeq(f.lineCount, lineCounts)
  /\ inFunction =>
        \A e \in functionStartLine..(i - 1) : ~ClosesAt(functionStartLine, e)

----------------------------------------------------------------------------
(* preferentialAttachment and samplePreferentialAttachment                 *)

Randoms == 0..(RandDen - 1)

(* The for loop of samplePreferentialAttachment from index j on, with      *)
(* cumulativeSum the sum before counts[j] is added.  random is             *)
(* rnd / RandDen * totalSum, so  random <= cumulativeSum  is compared      *)
(* after multiplying both sides by RandDen.                                *)
RECURSIVE CumulativeScan(_, _, _, _, _)
CumulativeScan(cs, rnd, totalSum, j, cumulativeSum) ==
  IF j >= Len(cs) THEN Len(cs) - 1
  ELSE LET c == cumulativeSum + cs[j + 1] IN
       IF rnd * totalSum <= c * RandDen THEN j
       ELSE CumulativeScan(cs, rnd, totalSum, j + 1, c)

samplePreferentialAttachment(cs, rnd) ==
  LET totalSum == SumSeq(cs) IN
  IF totalSum = 0
  THEN (rnd * Len(cs)) \div RandDen
  ELSE CumulativeScan(cs, rnd, totalSum, 0, 0)

InitSample ==
  /\ pc = "sample"
  /\ \E arraySize \in 1..MaxArraySize : counts = [k \in 1..arraySize |-> 0]
  /\ sampleI = 0
  /\ random = 0
  /\ selectedIndex = -1
  /\ IdleScan /\ IdleGini /\ IdleIter /\ IdleRepo /\ IdlePower

(* const selectedIndex = samplePreferentialAttachment(counts) *)
Sample ==
  /\ pc = "sample"
  /\ sampleI < MaxSamples
  /\ \E rnd \in Randoms :
        /\ random' = rnd
        /\ selectedIndex' = samplePreferentialAttachment(counts, rnd)
  /\ pc' = "increment"
  /\ UNCHANGED <<counts, sampleI, notSample>>

(* counts[selectedIndex]++ *)
Increment ==
  /\ pc = "increment"
  /\ counts' = [counts EXCEPT ![selectedIndex + 1] = @ + 1]
  /\ sampleI' = sampleI + 1
  /\ pc' = "sample"
  /\ UNCHANGED <<random, selectedIndex, notSample>>

SampleReturn ==
  /\ pc = "sample"
  /\ sampleI = MaxSamples
  /\ pc' = "sampled"
  /\ UNCHANGED <<sampleVars, notSample>>

NextSample == Sample \/ Increment \/ SampleReturn

SpecSample == InitSample /\ [][NextSample]_vars

PrefixSum(cs, n) == SumSeq(SubSeq(cs, 1, n))

(* C2: when at least one count is positive, the returned index j is the   *)
(* one whose cumulative interval [sum of counts before j, sum of counts   *)
(* up to j] contains the draw scaled by the total, and its count is not 0. *)
C2_ProportionalNeverZeroCount ==
  (pc = "increment" /\ SumSeq(counts) > 0) =>
     /\ selectedIndex \in 0..(Len(counts) - 1)
     /\ PrefixSum(counts, selectedIndex) * RandDen <= random * SumSeq(counts)
     /\ random * SumSeq(counts) <= PrefixSum(counts, selectedIndex + 1) * RandDen
     /\ counts[selectedIndex + 1] > 0

----------------------------------------------------------------------------
(* calculateGini                                                           *)

(* [...values].sort((a, b) => a - b): ascending numeric order *)
RECURSIVE InsertSorted(_, _)
InsertSorted(x, s) ==
  IF s = <<>> THEN <<x>>
  ELSE IF x <= s[1] THEN <<x>> \o s
  ELSE <<s[1]>> \o InsertSorted(x, Tail(s))

RECURSIVE SortAscendingFrom(_, _)
SortAscendingFrom(s, acc) ==
  IF s = <<>> THEN acc ELSE SortAscendingFrom(Tail(s), InsertSorted(s[1], acc))

C4_Unsorted(s) == s

SortAscending(s) == SortAscendingFrom(s, <<>>)

C3_WeightOffByTwo(idx, n) == 2 * (idx + 1) - n + 1

(* the factor of sortedValues[i] in the numerator, i 0-based *)
GiniWeight(idx, n) == 2 * (idx + 1) - n - 1

RECURSIVE GiniNumerator(_, _, _)
GiniNumerator(sortedValues, idx, n) ==
  IF idx >= n THEN 0
  ELSE GiniWeight(idx, n) * sortedValues[idx + 1]
       + GiniNumerator(sortedValues, idx + 1, n)

(* the quotient returned, as <<numerator, denominator>> *)
calculateGini(vs) ==
  LET n == Len(vs)
      sortedValues == SortAscending(vs)
      sum == SumSeq(sortedValues)
  IN  IF sum = 0 THEN <<0, 1>>
      ELSE <<GiniNumerator(sortedValues, 0, n), n * sum>>

GiniInputs == SeqsUpTo(0..MaxValue, MaxValues) \ {<<>>}

InitGini ==
  /\ pc = "gini"
  /\ values \in GiniInputs
  /\ giniNum = 0
  /\ giniDen = 1
  /\ IdleScan /\ IdleSample /\ IdleIter /\ IdleRepo /\ IdlePower

GiniReturn ==
  /\ pc = "gini"
  /\ giniNum' = calculateGini(values)[1]
  /\ giniDen' = calculateGini(values)[2]
  /\ pc' = "ginied"
  /\ UNCHANGED <<values, notGini>>

NextGini == GiniReturn

SpecGini == InitGini /\ [][NextGini]_vars

(* C3: the value returned for a non-empty array of non-negative integers  *)
(* lies between 0 and 1: the denominator is positive and                   *)
(* 0 <= numerator <= denominator (0 / 1 when the sum is 0).                *)
C3_GiniBetweenZeroAndOne ==
  pc = "ginied" =>
     /\ giniDen > 0
     /\ 0 <= giniNum
     /\ giniNum <= giniDen
     /\ SumSeq(values) > 0 => giniDen = Len(values) * SumSeq(values)
     /\ SumSeq(values) = 0 => giniNum = 0

C3_Witness ==
  pc = "ginied" /\ giniNum > 0 /\ giniNum < giniDen /\ Len(values) = 3

AllEqual(vs) == \A a, b \in 1..Len(vs) : vs[a] = vs[b]

(* C4: the value returned is 0 if all entries are equal (all zeros         *)
(* included) and strictly greater than 0 if they are not.                  *)
C4_GiniZeroIffAllEqual ==
  pc = "ginied" =>
     /\ giniDen > 0
     /\ AllEqual(values) => giniNum = 0
     /\ ~AllEqual(values) => giniNum > 0

C4_Witness ==
  /\ pc = "ginied" /\ ~AllEqual(values) /\ giniNum > 0
  /\ \E a \in 1..(Len(values) - 1) : values[a] > values[a + 1]

----------------------------------------------------------------------------
(* generateIterations                                                      *)

(* Naturals beyond the checker's integers, as little-endian sequences of   *)
(* base-10000 limbs without leading zero limbs: the sample's numerator and *)
(* denominator after up to MaxIter multiplications.                        *)
RECURSIVE BigOf(_)
BigOf(n) == IF n = 0 THEN <<>> ELSE <<n % 10000>> \o BigOf(n \div 10000)

RECURSIVE BigStrip(_)
BigStrip(a) ==
  IF a # <<>> /\ a[Len(a)] = 0 THEN BigStrip(SubSeq(a, 1, Len(a) - 1)) ELSE a

RECURSIVE BigMulCarry(_, _, _)
BigMulCarry(a, m, carry) ==
  IF a = <<>> THEN BigOf(carry)
  ELSE LET v == a[1] * m + carry
       IN  <<v % 10000>> \o BigMulCarry(Tail(a), m, v \div 10000)

BigMul(a, m) == BigStrip(BigMulCarry(a, m, 0))

RECURSIVE BigLessAt(_, _, _)
BigLessAt(a, b, k) ==      \* a < b, both of the same length, from limb k down
  IF k = 0 THEN FALSE
  ELSE IF a[k] # b[k] THEN a[k] < b[k]
  ELSE BigLessAt(a, b, k - 1)

BigLess(a, b) ==
  IF Len(a) # Len(b) THEN Len(a) < Len(b) ELSE BigLessAt(a, b, Len(a))

BigLeq(a, b) == ~BigLess(b, a)

(* let sample = initialSample *)
SampleOf(frac) == <<BigOf(frac[1]), BigOf(frac[2])>>

C5_StrictlyBelow(smp, t) ==
  BigLess(BigMul(smp[1], ThresholdDen), BigMul(smp[2], t))

(* sample <= Math.random(), the draw being t / ThresholdDen *)
SampleAtMost(smp, t) ==
  BigLeq(BigMul(smp[1], ThresholdDen), BigMul(smp[2], t))

C7_TimesGrowthRate(smp, rate) ==
  <<BigMul(smp[1], rate[1]), BigMul(smp[2], rate[2])>>

(* sample *= 1 + growthRate *)
Grow(smp, rate) ==
  <<BigMul(smp[1], rate[2] + rate[1]), BigMul(smp[2], rate[2])>>

Thresholds == 0..(ThresholdDen - 1)

GrowthRates == { <<0, 1>>, <<1, 10>>, <<1, 2>>, <<1, 1>> }

InitialSamples == { <<1, 100>>, <<1, 20>>, <<1, 2>>, <<1, 1>>, <<3, 2>> }

InitIter ==
  /\ pc = "loop"
  /\ growthRate \in GrowthRates
  /\ initialSample \in InitialSamples
  /\ sample = SampleOf(initialSample)
  /\ iterations = 0
  /\ threshold = -1
  /\ IdleScan /\ IdleSample /\ IdleGini /\ IdleRepo /\ IdlePower

(* the loop condition holds for the value drawn: one pass of the body *)
IterLoop ==
  /\ pc = "loop"
  /\ iterations < MaxIter
  /\ \E t \in Thresholds :
        /\ SampleAtMost(sample, t)
        /\ threshold' = t
  /\ sample' = Grow(sample, growthRate)
  /\ iterations' = iterations + 1
  /\ UNCHANGED <<pc, growthRate, initialSample, notIter>>

(* the loop condition fails for the value drawn: return iterations *)
IterReturn ==
  /\ pc = "loop"
  /\ \E t \in Thresholds :
        /\ ~SampleAtMost(sample, t)
        /\ threshold' = t
  /\ pc' = "iterated"
  /\ UNCHANGED <<growthRate, initialSample, sample, iterations, notIter>>

NextIter == IterLoop \/ IterReturn

SpecIter == InitIter /\ [][NextIter]_vars

(* initialSample * (1 + growthRate)^k, computed from the arguments alone *)
RECURSIVE BigTimesPower(_, _, _)
BigTimesPower(a, m, k) ==
  IF k = 0 THEN a ELSE BigTimesPower(BigMul(a, m), m, k - 1)

SampleAfter(k) ==
  <<BigTimesPower(BigOf(initialSample[1]), growthRate[2] + growthRate[1], k),
    BigTimesPower(BigOf(initialSample[2]), growthRate[2], k)>>

(* sample > t / ThresholdDen, stated on the fraction itself *)
Exceeds(smp, t) == BigLess(BigMul(smp[2], t), BigMul(smp[1], ThresholdDen))

(* C5: the value returned is the number k of multiplications by            *)
(* (1 + growthRate) applied; at each earlier draw the sample was <= the    *)
(* threshold drawn, and at the final draw the sample,                      *)
(* initialSample * (1 + growthRate)^k, is strictly greater than the        *)
(* threshold drawn.                                                        *)
C5_ReturnsIterationsUntilExceeds ==
  /\ [](sample = SampleAfter(iterations))
  /\ [][ /\ (pc = "loop" /\ pc' = "loop") =>
             /\ ~Exceeds(sample, threshold')
             /\ iterations' = iterations + 1
        /\ (pc = "loop" /\ pc' = "iterated") =>
             /\ Exceeds(sample, threshold')
             /\ iterations' = iterations ]_vars

C5_Witness ==
  /\ pc = "iterated" /\ iterations = 3
  /\ growthRate = <<1, 2>> /\ initialSample = <<1, 20>>

(* the least k with initialSample * (1 + growthRate)^k >= 1, searched up  *)
(* to MaxIter + 1                                                          *)
RECURSIVE LeastKFrom(_, _)
LeastKFrom(k, smp) ==
  IF k > MaxIter \/ BigLeq(smp[2], smp[1]) THEN k
  ELSE LeastKFrom(k + 1,
                  <<BigMul(smp[1], growthRate[2] + growthRate[1]),
                    BigMul(smp[2], growthRate[2])>>)

LeastK == LeastKFrom(0, SampleOf(initialSample))

PositiveArguments == growthRate[1] > 0 /\ initialSample[1] > 0

ScriptCall == growthRate = <<1, 10>> /\ initialSample = <<1, 100>>

----------------------------------------------------------------------------
(* iterations (iteration_generator.js)                                     *)

(* sample > Math.random(), the draw being t / ThresholdDen *)
SampleAbove(smp, t) ==
  BigLess(BigMul(smp[2], t), BigMul(smp[1], ThresholdDen))

(* the script calls iterations(0.05, 0.1) *)
IterationsRates == { <<1, 10>>, <<1, 2>> }

IterationsSamples == { <<1, 20>>, <<1, 2>> }

InitIterations ==
  /\ pc = "while"
  /\ growthRate \in IterationsRates
  /\ initialSample \in IterationsSamples
  /\ sample = SampleOf(initialSample)
  /\ iterations = 0
  /\ threshold = -1
  /\ IdleScan /\ IdleSample /\ IdleGini /\ IdleRepo /\ IdlePower

(* the loop condition holds for the value drawn: one pass of the body *)
IterationsLoop ==
  /\ pc = "while"
  /\ iterations < MaxIter
  /\ \E t \in Thresholds :
        /\ SampleAbove(sample, t)
        /\ threshold' = t
  /\ sample' = Grow(sample, growthRate)
  /\ iterations' = iterations + 1
  /\ UNCHANGED <<pc, growthRate, initialSample, notIter>>

(* the loop condition fails for the value drawn: return iterations *)
IterationsReturn ==
  /\ pc = "while"
  /\ \E t \in Thresholds :
        /\ ~SampleAbove(sample, t)
        /\ threshold' = t
  /\ pc' = "returned"
  /\ UNCHANGED <<growthRate, initialSample, sample, iterations, notIter>>

NextIterations == IterationsLoop \/ IterationsReturn

SpecIterations == InitIterations /\ [][NextIterations]_vars

(* C6: on return the sample is strictly greater than the last threshold   *)
(* drawn, at every earlier draw it was not, and the value returned is the  *)
(* number of growth multiplications applied before that draw.              *)
C6_ReturnsWhenSampleExceeds ==
  [][ /\ (pc = "while" /\ pc' = "while") =>
           /\ ~Exceeds(sample, threshold')
           /\ iterations' = iterations + 1
           /\ sample' = SampleAfter(iterations')
      /\ (pc = "while" /\ pc' = "returned") =>
           /\ Exceeds(sample, threshold')
           /\ iterations' = iterations ]_vars

----------------------------------------------------------------------------
(* The counter scripts: function_line_counter.js ("eslint"),               *)
(* simple_cpp_counter.js ("simple"), treesitter_cpp_counter.js             *)
(* ("treesitter") and cpp_function_line_counter.js ("clangtidy")           *)

Variants == {"eslint", "simple", "treesitter", "clangtidy"}

RepoUrls == {"", "https://host/repo.git"}

LineCountValues == 2..MaxLineCount

(* String(lineCount), the property name, as its decimal digits *)
RECURSIVE ToPropertyName(_)
ToPropertyName(n) ==
  IF n < 10 THEN <<n>> ELSE ToPropertyName(n \div 10) \o <<n % 10>>

(* parseInt of a property name *)
RECURSIVE ParseInt(_)
ParseInt(name) ==
  IF Len(name) = 1 THEN name[1]
  ELSE 10 * ParseInt(SubSeq(name, 1, Len(name) - 1)) + name[Len(name)]

C8_CountSetToOne(h, lineCount) ==
  LET name == ToPropertyName(lineCount) IN
  [k \in DOMAIN h \cup {name} |-> IF k = name THEN 1 ELSE h[k]]

(* histogram[lineCount] = (histogram[lineCount] || 0) + 1 *)
HistogramAdd(h, lineCount) ==
  LET name == ToPropertyName(lineCount) IN
  [k \in DOMAIN h \cup {name} |->
     IF k = name THEN (IF name \in DOMAIN h THEN h[name] ELSE 0) + 1
     ELSE h[k]]

RECURSIVE BuildHistogram(_, _)
BuildHistogram(h, all) ==
  IF all = <<>> THEN h
  ELSE BuildHistogram(HistogramAdd(h, all[1]), Tail(all))

(* Object.entries(histogram).sort((a, b) => parseInt(a[0]) - parseInt(b[0])) *)
RECURSIVE SortedEntries(_, _)
SortedEntries(h, names) ==
  IF names = {} THEN <<>>
  ELSE LET first == CHOOSE k \in names :
                      \A o \in names : ParseInt(k) <= ParseInt(o)
       IN  <<<<first, h[first]>>>> \o SortedEntries(h, names \ {first})

C10_NeverMissing(url) == FALSE

(* !repoUrl *)
MissingUrl(url) == url = ""

InitRepo ==
  /\ pc = "load"
  /\ variant \in Variants
  /\ repoUrl \in RepoUrls
  /\ tempDir = "none" /\ cloneRun = FALSE
  /\ usagePrinted = FALSE /\ installHintPrinted = FALSE /\ exitCode = -1
  /\ work = 0 /\ allLineCounts = <<>> /\ histogram = EmptyObject
  /\ printedRows = <<>> /\ printedTotal = -1
  /\ IdleScan /\ IdleSample /\ IdleGini /\ IdleIter /\ IdlePower

(* the require calls at the top of the script succeed *)
Load ==
  /\ pc = "load"
  /\ pc' = "main"
  /\ UNCHANGED <<repoVars, notRepo>>

(* treesitter_cpp_counter.js: require('tree-sitter') or                    *)
(* require('tree-sitter-cpp') throws                                       *)
LoadFails ==
  /\ pc = "load"
  /\ variant = "treesitter"
  /\ installHintPrinted' = TRUE
  /\ exitCode' = 1
  /\ pc' = "exited"
  /\ UNCHANGED <<variant, repoUrl, tempDir, cloneRun, usagePrinted, work,
                 allLineCounts, histogram, printedRows, printedTotal, notRepo>>

(* Main execution *)
Main ==
  /\ pc = "main"
  /\ IF MissingUrl(repoUrl)
     THEN /\ usagePrinted' = TRUE
          /\ exitCode' = 1
          /\ pc' = "exited"
     ELSE /\ pc' = "mkdtemp"
          /\ UNCHANGED <<usagePrinted, exitCode>>
  /\ UNCHANGED <<variant, repoUrl, tempDir, cloneRun, installHintPrinted, work,
                 allLineCounts, histogram, printedRows, printedTotal, notRepo>>

(* const tempDir = fs.mkdtempSync(...), before the try block *)
Mkdtemp ==
  /\ pc = "mkdtemp"
  /\ \/ tempDir' = "exists" /\ pc' = "clone"
     \/ pc' = "thrown" /\ UNCHANGED tempDir
  /\ UNCHANGED <<variant, repoUrl, cloneRun, usagePrinted, installHintPrinted,
                 exitCode, work, allLineCounts, histogram, printedRows,
                 printedTotal, notRepo>>

(* execSync(`git clone ...`) *)
Clone ==
  /\ pc = "clone"
  /\ cloneRun' = TRUE
  /\ pc' \in {"prepare", "catch"}
  /\ UNCHANGED <<variant, repoUrl, tempDir, usagePrinted, installHintPrinted,
                 exitCode, work, allLineCounts, histogram, printedRows,
                 printedTotal, notRepo>>

(* What lies between the clone and the search for files: installing and    *)
(* configuring ESLint, writing .clang-tidy; nothing in the other two.      *)
(* npm, JSON.parse and writeFileSync may throw.                            *)
Prepare ==
  /\ pc = "prepare"
  /\ \/ pc' = "find"
     \/ variant \in {"eslint", "clangtidy"} /\ pc' = "catch"
  /\ UNCHANGED <<repoVars, notRepo>>

(* The search for the files (find), or the ESLint run whose output is the  *)
(* list of messages: it yields n items to go through.                      *)
FindYields ==
  /\ pc = "find"
  /\ \E n \in 0..MaxWork :
        /\ variant # "eslint" => n > 0
        /\ work' = n
  /\ pc' = "collect"
  /\ UNCHANGED <<variant, repoUrl, tempDir, cloneRun, usagePrinted,
                 installHintPrinted, exitCode, allLineCounts, histogram,
                 printedRows, printedTotal, notRepo>>

(* "No C++ files found" (no file, or in the clang-tidy script find         *)
(* failing), "No ESLint output received." or "Failed to parse ESLint       *)
(* output:": a return inside the try block, before the clean up.           *)
FindReturnsEarly ==
  /\ pc = "find"
  /\ pc' = "returned"
  /\ UNCHANGED <<repoVars, notRepo>>

(* find throws (simple, treesitter), or error.stdout is null when ESLint   *)
(* could not be run (eslint)                                               *)
FindThrows ==
  /\ pc = "find"
  /\ variant \in {"simple", "treesitter", "eslint"}
  /\ pc' = "catch"
  /\ UNCHANGED <<repoVars, notRepo>>

(* One file, batch or message gives a line count *)
Collect ==
  /\ pc = "collect"
  /\ work > 0
  /\ work' = work - 1
  /\ \E lineCount \in LineCountValues :
        allLineCounts' = Append(allLineCounts, lineCount)
  /\ UNCHANGED <<pc, variant, repoUrl, tempDir, cloneRun, usagePrinted,
                 installHintPrinted, exitCode, histogram, printedRows,
                 printedTotal, notRepo>>

(* One file, batch or message gives none: it cannot be read or parsed, or  *)
(* nothing in it matches                                                   *)
CollectSkips ==
  /\ pc = "collect"
  /\ work > 0
  /\ work' = work - 1
  /\ UNCHANGED <<pc, variant, repoUrl, tempDir, cloneRun, usagePrinted,
                 installHintPrinted, exitCode, allLineCounts, histogram,
                 printedRows, printedTotal, notRepo>>

(* Clean up temp directory: fs.rmSync(tempDir, ...) in the try block *)
CleanUp ==
  /\ pc = "collect"
  /\ work = 0
  /\ tempDir' = "removed"
  /\ pc' = "report"
  /\ UNCHANGED <<variant, repoUrl, cloneRun, usagePrinted, installHintPrinted,
                 exitCode, work, allLineCounts, histogram, printedRows,
                 printedTotal, notRepo>>

(* "No ... functions found or analyzed.", or the histogram and the total *)
Report ==
  /\ pc = "report"
  /\ IF Len(allLineCounts) = 0
     THEN UNCHANGED <<histogram, printedRows, printedTotal>>
     ELSE /\ histogram' = BuildHistogram(EmptyObject, allLineCounts)
          /\ printedRows' = SortedEntries(histogram', DOMAIN histogram')
          /\ printedTotal' = Len(allLineCounts)
  /\ pc' = "returned"
  /\ UNCHANGED <<variant, repoUrl, tempDir, cloneRun, usagePrinted,
                 installHintPrinted, exitCode, work, allLineCounts, notRepo>>

(* catch (error) { fs.rmSync(tempDir, ...); throw error; } *)
Catch ==
  /\ pc = "catch"
  /\ tempDir' = "removed"
  /\ pc' = "thrown"
  /\ UNCHANGED <<variant, repoUrl, cloneRun, usagePrinted, installHintPrinted,
                 exitCode, work, allLineCounts, histogram, printedRows,
                 printedTotal, notRepo>>

NextRepo ==
  \/ Load \/ LoadFails \/ Main \/ Mkdtemp \/ Clone \/ Prepare
  \/ FindYields \/ FindReturnsEarly \/ FindThrows
  \/ Collect \/ CollectSkips \/ CleanUp \/ Report \/ Catch

SpecRepo == InitRepo /\ [][NextRepo]_vars

Collected == {allLineCounts[k] : k \in 1..Len(allLineCounts)}

RowCount(lineCount) ==
  Cardinality({k \in 1..Len(printedRows) :
                 ParseInt(printedRows[k][1]) = lineCount})

Occurrences(lineCount) ==
  Cardinality({k \in 1..Len(allLineCounts) : allLineCounts[k] = lineCount})

RowCounts == [k \in 1..Len(printedRows) |-> printedRows[k][2]]

(* C8: the printed histogram has exactly one row per distinct collected    *)
(* line count, the rows' counts sum to the number of collected line        *)
(* counts, and that number is the total printed.                           *)
C8_HistogramRowsAndTotal ==
  printedTotal # -1 =>
     /\ Len(printedRows) = Cardinality(Collected)
     /\ \A lineCount \in Collected : RowCount(lineCount) = 1
     /\ \A k \in 1..Len(printedRows) :
           /\ ParseInt(printedRows[k][1]) \in Collected
           /\ printedRows[k][2] = Occurrences(ParseInt(printedRows[k][1]))
     /\ SumSeq(RowCounts) = Len(allLineCounts)
     /\ printedTotal = Len(allLineCounts)

C8_Witness ==
  /\ pc = "returned" /\ printedTotal = 3 /\ Len(printedRows) = 2
  /\ printedRows[1] = <<<<2>>, 2>> /\ printedRows[2] = <<<<1, 1>>, 1>>

(* C9: whenever analyzeRepo finishes, by a return or by throwing, the      *)
(* temporary directory it created has been removed.                        *)
C9_TempDirRemovedOnExit ==
  pc \in {"returned", "thrown"} => tempDir # "exists"

(* C10 as stated: started without a repository URL argument, the script    *)
(* prints its usage message and exits with status 1, and analyzeRepo is    *)
(* never called: no temporary directory, no git clone.                     *)
C10_UsageAndExitWithoutUrl ==
  repoUrl = "" =>
     /\ pc \in {"load", "main", "exited"}
     /\ tempDir = "none" /\ ~cloneRun
     /\ pc = "exited" => usagePrinted /\ exitCode = 1

(* C10, amended: started without a repository URL argument, the script     *)
(* exits with status 1 and analyzeRepo is never called (no temporary       *)
(* directory, no git clone); it has printed its usage message, except that *)
(* treesitter_cpp_counter.js, when a tree-sitter module cannot be          *)
(* required, has printed the install instructions instead.                 *)
C10_ExitWithoutUrl ==
  repoUrl = "" =>
     /\ pc \in {"load", "main", "exited"}
     /\ tempDir = "none" /\ ~cloneRun
     /\ pc = "exited" =>
          /\ exitCode = 1
          /\ usagePrinted \/ (variant = "treesitter" /\ installHintPrinted)
          /\ variant # "treesitter" => usagePrinted

C10_Witness ==
  pc = "exited" /\ repoUrl = "" /\ usagePrinted /\ variant = "treesitter"

----------------------------------------------------------------------------
(* generatePowerLawPreferential and preferentialAttachmentStep             *)

(* Math.pow(v, 1 / (alpha - 1)) for the alphas whose exponent is a whole   *)
(* number: alpha = 2 (exponent 1) and alpha = 1.5 (exponent 2)             *)
RECURSIVE Power(_, _)
Power(v, e) == IF e = 0 THEN 1 ELSE v * Power(v, e - 1)

Exponents == {1, 2}

Weights(vs, e) == [k \in 1..Len(vs) |-> Power(vs[k], e)]

(* The for loop of preferentialAttachmentStep from index idx on: the       *)
(* first index whose cumulative weight reaches r = rnd / RandDen *         *)
(* totalWeight is incremented; no index is when none does.                 *)
RECURSIVE IncrementChosen(_, _, _, _, _, _)
IncrementChosen(vs, weights, rnd, totalWeight, idx, cumsum) ==
  IF idx >= Len(vs) THEN vs
  ELSE LET c == cumsum + weights[idx + 1] IN
       IF rnd * totalWeight <= c * RandDen
       THEN [vs EXCEPT ![idx + 1] = @ + 1]
       ELSE IncrementChosen(vs, weights, rnd, totalWeight, idx + 1, c)

(* rnd1 and rnd2 are the two values of Math.random(), over RandDen *)
preferentialAttachmentStep(vs, e, prob, rnd1, rnd2) ==
  LET weights == Weights(vs, e)
      totalWeight == SumSeq(weights)
      incremented == IncrementChosen(vs, weights, rnd1, totalWeight, 0, 0)
  IN  IF rnd2 < prob THEN Append(incremented, 1) ELSE incremented

(* Array(Math.floor(xMin)).fill(1), xMin a whole number *)
InitialPopulation(x) == [k \in 1..x |-> 1]

InitPower ==
  /\ pc = "grow"
  /\ exponent \in Exponents
  /\ xMin \in 1..MaxXMin
  /\ steps \in 0..MaxSteps
  /\ newElementProbability \in {1, RandDen \div 2}
  /\ population = InitialPopulation(xMin)
  /\ step = 0
  /\ IdleScan /\ IdleSample /\ IdleGini /\ IdleIter /\ IdleRepo

(* values = preferentialAttachmentStep(values, alpha, newElementProbability) *)
GrowthStep ==
  /\ pc = "grow"
  /\ step < steps
  /\ \E rnd1, rnd2 \in Randoms :
        population' = preferentialAttachmentStep(population, exponent,
                         newElementProbability, rnd1, rnd2)
  /\ step' = step + 1
  /\ UNCHANGED <<pc, exponent, xMin, steps, newElementProbability, notPower>>

(* return values *)
PowerReturn ==
  /\ pc = "grow"
  /\ step = steps
  /\ pc' = "generated"
  /\ UNCHANGED <<powerVars, notPower>>

NextPower == GrowthStep \/ PowerReturn

SpecPower == InitPower /\ [][NextPower]_vars

(* C11: xMin is the minimum value of the generated distribution: every    *)
(* value of the returned array is >= xMin.                                 *)
C11_ValuesAtLeastXMin ==
  pc = "generated" => \A k \in 1..Len(population) : population[k] >= xMin

====
